---- MODULE Spec2Model ----
(***************************************************************************)
(* Model of the two deployment scripts of nofx-ai-trading:                 *)
(*   upload_to_supabase.py  - walks dist/ and uploads every file with a    *)
(*                            delete-then-post pair of HTTP requests;      *)
(*   deploy_automation.py   - installs a CLI, builds the frontend and      *)
(*                            deploys through shell commands.              *)
(* One behaviour is one invocation of one of the scripts (program),        *)
(* followed for the uploader by further runs against the same tree and the *)
(* same remote bucket.                                                     *)
(***************************************************************************)
EXTENDS Integers, Sequences, FiniteSets, TLC

VARIABLES
    program,          \* which script is executed: "upload" or "deploy"
    run,              \* number of the current run of the script
    pc,               \* position of the single control thread
    distExists,       \* os.path.exists(dist_dir)
    tree,             \* entries (files and directories) under dist_dir
    visited,          \* entries the directory walk has already yielded
    current,          \* entry whose upload_file call is active, or NoEntry
    inflight,         \* HTTP requests issued and not yet returned
    issued,           \* kinds of requests / shell commands issued in this run
    bucketResult,     \* what requests.post gave create_bucket
    status,           \* response.status_code of the last post, or NoStatus
    success,          \* first component of upload_file's return value
    error,            \* second component of upload_file's return value
    uploaded,         \* upload_directory's counter
    failed,           \* upload_directory's counter
    phase,            \* per file, in this run: "pending", "deleting", "deleted",
                      \* "posting", then its result "ok" or "failed"
    putCount,         \* per file: post requests issued in this run
    remote,           \* keys that hold an object in the bucket
    everPut,          \* keys whose post was ever answered 200/201
    exitCode,         \* value handed to sys.exit, or NoExit
    envToken,         \* os.getenv("SUPABASE_ACCESS_TOKEN") is set
    zeaburToken,      \* os.getenv("ZEABUR_TOKEN") is set
    gitExists,        \* project_dir/.git exists
    cliOk,            \* install_zeabur_cli()
    buildOk,          \* build_frontend()
    backend_success,  \* first component of deploy_to_zeabur()
    frontend_success, \* deploy_frontend_to_supabase()
    files_uploaded,   \* deploy_frontend_to_supabase's counter
    steps             \* steps of deploy_automation.main that have run

vars == <<program, run, pc, distExists, tree, visited, current, inflight,
          issued, bucketResult, status, success, error, uploaded, failed,
          phase, putCount, remote, everPut, exitCode, envToken,
          zeaburToken, gitExists, cliOk, buildOk, backend_success,
          frontend_success, files_uploaded, steps>>

uploadVars == <<visited, current, inflight, bucketResult, status, success,
                error, uploaded, failed, phase, putCount, remote, everPut>>

deployVars == <<gitExists, cliOk, buildOk, backend_success, frontend_success,
                files_uploaded, steps>>

envVars == <<program, distExists, tree, envToken, zeaburToken>>

----------------------------------------------------------------------------
(* Bounds of the model *)

MaxRuns == 2

----------------------------------------------------------------------------
(* Values *)

NoEntry == <<>>
NoStatus == 0
NoExit == -1
None == <<>>

BUCKET_NAME == "nofx-frontend"

\* The local build output: paths relative to dist_dir, as path components.
Entries == {<<"index.html">>, <<"assets">>, <<"assets", "app.js">>}

Directories == {<<"assets">>}

\* Path.is_file()
is_file(e) == e \notin Directories

\* A tree holds a directory whenever it holds an entry below it.
Trees == {T \in SUBSET Entries : <<"assets", "app.js">> \in T => <<"assets">> \in T}

Files(T) == {e \in T : is_file(e)}

\* str(relative_path).replace('\\', '/'): the components joined by "/"
RECURSIVE remote_path(_)
remote_path(e) ==
    IF Len(e) = 1 THEN e[1] ELSE e[1] \o "/" \o remote_path(Tail(e))

Keys == {remote_path(e) : e \in Files(Entries)}

\* Status codes a storage endpoint answers with
Statuses == {200, 201, 202, 204, 299, 400, 404, 409, 500}

\* A response body longer than the 100 characters the reason keeps
BodyLimit == 100
LongBody == [i \in 1..(BodyLimit + 1) |-> "x"]

Bodies == {<<>>, <<"D", "u", "p">>, LongBody}

\* str(e) of a transport exception, and of a failing open()
ExcMessages == {<<"t", "i", "m", "e", "o", "u", "t">>}
OpenMessage == <<"E", "N", "O", "E", "N", "T">>

DigitChar(d) == <<"0", "1", "2", "3", "4", "5", "6", "7", "8", "9">>[d + 1]

\* f"{n}" for a non-negative integer
RECURSIVE Digits(_)
Digits(n) ==
    IF n < 10 THEN <<DigitChar(n)>>
    ELSE Digits(n \div 10) \o <<DigitChar(n % 10)>>

\* text[:n]
Truncate(text, n) == SubSeq(text, 1, IF Len(text) < n THEN Len(text) ELSE n)

\* sub in text
Contains(text, sub) ==
    \E i \in 0..(Len(text) - Len(sub)) : SubSeq(text, i + 1, i + Len(sub)) = sub

----------------------------------------------------------------------------
(* upload_to_supabase.py *)

\* What the network gives a request: an HTTP response or a raised exception.
\* applied tells whether the server carried the request out although the
\* client saw an exception.
HttpResponses == [kind : {"http"}, status : Statuses, body : Bodies]
Exceptions == [kind : {"exception"}, msg : ExcMessages, applied : BOOLEAN]

Request(method, key) == [method |-> method, key |-> key]

\* The branch of create_bucket's try block a result takes
create_bucket_branch(resp) ==
    IF resp.kind = "exception" THEN "error"
    ELSE IF resp.status \in {200, 201} THEN "created"
    ELSE IF resp.status = 409 THEN "exists"
    ELSE "warning"

\* upload_file as it would be with the test "status_code < 300"
upload_result_any_2xx(st, body) ==
    IF st < 300 THEN <<TRUE, None>>
    ELSE <<FALSE, <<"H", "T", "T", "P", " ">> \o Digits(st) \o <<":", " ">>
                   \o Truncate(body, BodyLimit)>>

\* The value upload_file returns for a response
upload_result(st, body) ==
    IF st \in {200, 201} THEN <<TRUE, None>>
    ELSE <<FALSE, <<"H", "T", "T", "P", " ">> \o Digits(st) \o <<":", " ">>
                   \o Truncate(body, BodyLimit)>>

\* main as it would be if it returned 0 whatever the counters hold
main_return_always_zero(f) == 0

\* main's return value after upload_directory
main_return(f) == IF f = 0 THEN 0 ELSE 1

\* The object store: a 2xx answer to a delete removes the object, a 2xx answer
\* to a post stores it, any other answer leaves the bucket as it is.
Served(resp) ==
    IF resp.kind = "http" THEN resp.status \in 200..299 ELSE resp.applied

InitUpload ==
    /\ visited = {}
    /\ current = NoEntry
    /\ inflight = {}
    /\ bucketResult = "none"
    /\ status = NoStatus
    /\ success = FALSE
    /\ error = None
    /\ uploaded = 0
    /\ failed = 0
    /\ phase = [e \in Files(Entries) |-> "pending"]
    /\ putCount = [e \in Files(Entries) |-> 0]
    /\ everPut = {}

InitDeploy ==
    /\ cliOk = FALSE
    /\ buildOk = FALSE
    /\ backend_success = FALSE
    /\ frontend_success = FALSE
    /\ files_uploaded = 0
    /\ steps = {}

Init ==
    /\ program \in {"upload", "deploy"}
    /\ run = 1
    /\ pc = "start"
    /\ distExists \in BOOLEAN
    /\ tree \in {T \in Trees : ~distExists => T = {}}
    /\ issued = {}
    /\ exitCode = NoExit
    /\ remote \in {R \in SUBSET Keys : program = "deploy" => R = {}}
    /\ envToken \in {b \in BOOLEAN : program = "upload" => ~b}
    /\ zeaburToken \in {b \in BOOLEAN : program = "upload" => ~b}
    /\ gitExists \in {b \in BOOLEAN : program = "upload" => ~b}
    /\ InitUpload
    /\ InitDeploy

\* main calls create_bucket: requests.post is issued
BucketIssue ==
    /\ program = "upload" /\ pc = "start"
    /\ inflight' = inflight \cup {Request("POST_BUCKET", BUCKET_NAME)}
    /\ issued' = issued \cup {"bucket"}
    /\ pc' = "bucket"
    /\ UNCHANGED <<run, exitCode, envVars, deployVars, visited, current,
                   bucketResult, status, success, error, uploaded, failed,
                   phase, putCount, remote, everPut>>

\* create_bucket as it would be if a failed creation ended the run
BucketReturnFatal ==
    /\ program = "upload" /\ pc = "bucket"
    /\ \E resp \in [kind : {"http"}, status : Statuses, body : {<<>>}]
                   \cup [kind : {"exception"}, msg : ExcMessages, applied : {FALSE}] :
          /\ bucketResult' = create_bucket_branch(resp)
          /\ IF bucketResult' \in {"created", "exists"}
               THEN pc' = "check_dir" /\ exitCode' = exitCode
               ELSE pc' = "done" /\ exitCode' = 1
    /\ inflight' = inflight \ {Request("POST_BUCKET", BUCKET_NAME)}
    /\ UNCHANGED <<run, issued, envVars, deployVars, visited, current,
                   status, success, error, uploaded, failed, phase, putCount,
                   remote, everPut>>

\* requests.post returns or raises; create_bucket prints and returns None
BucketReturn ==
    /\ program = "upload" /\ pc = "bucket"
    /\ \E resp \in [kind : {"http"}, status : Statuses, body : {<<>>}]
                   \cup [kind : {"exception"}, msg : ExcMessages, applied : {FALSE}] :
          bucketResult' = create_bucket_branch(resp)
    /\ inflight' = inflight \ {Request("POST_BUCKET", BUCKET_NAME)}
    /\ pc' = "check_dir"
    /\ UNCHANGED <<run, exitCode, issued, envVars, deployVars, visited,
                   current, status, success, error, uploaded, failed, phase,
                   putCount, remote, everPut>>

\* main: if not os.path.exists(dist_dir): return 1
CheckDir ==
    /\ program = "upload" /\ pc = "check_dir"
    /\ IF distExists
         THEN pc' = "walk" /\ exitCode' = exitCode
         ELSE pc' = "done" /\ exitCode' = 1
    /\ UNCHANGED <<run, issued, envVars, deployVars, uploadVars>>

\* upload_directory: rglob yields a directory, which is_file() skips
SkipDir ==
    /\ program = "upload" /\ pc = "walk"
    /\ \E e \in tree \ visited :
          /\ ~is_file(e)
          /\ visited' = visited \cup {e}
    /\ UNCHANGED <<run, pc, exitCode, issued, envVars, deployVars, current,
                   inflight, bucketResult, status, success, error, uploaded,
                   failed, phase, putCount, remote, everPut>>

\* delete_file as it would be if it sent the delete without waiting for it
DeleteIssueAsync ==
    /\ program = "upload" /\ pc = "walk"
    /\ \E e \in tree \ visited :
          /\ is_file(e)
          /\ visited' = visited \cup {e}
          /\ current' = e
          /\ inflight' = inflight \cup {Request("DELETE", remote_path(e))}
          /\ phase' = [phase EXCEPT ![e] = "deleting"]
    /\ issued' = issued \cup {"delete"}
    /\ status' = NoStatus
    /\ pc' = "open"
    /\ UNCHANGED <<run, exitCode, envVars, deployVars, bucketResult, success,
                   error, uploaded, failed, putCount, remote, everPut>>

\* upload_directory: rglob yields a file; upload_file calls delete_file,
\* which issues requests.delete and waits for it
DeleteIssue ==
    /\ program = "upload" /\ pc = "walk"
    /\ \E e \in tree \ visited :
          /\ is_file(e)
          /\ visited' = visited \cup {e}
          /\ current' = e
          /\ inflight' = inflight \cup {Request("DELETE", remote_path(e))}
          /\ phase' = [phase EXCEPT ![e] = "deleting"]
    /\ issued' = issued \cup {"delete"}
    /\ status' = NoStatus
    /\ pc' = "delete"
    /\ UNCHANGED <<run, exitCode, envVars, deployVars, bucketResult, success,
                   error, uploaded, failed, putCount, remote, everPut>>

\* requests.delete returns or raises; delete_file ignores both
DeleteReturn ==
    /\ program = "upload" /\ pc = "delete"
    /\ \E resp \in [kind : {"http"}, status : Statuses, body : {<<>>}] \cup Exceptions :
          remote' = IF Served(resp) THEN remote \ {remote_path(current)} ELSE remote
    /\ inflight' = inflight \ {Request("DELETE", remote_path(current))}
    /\ phase' = [phase EXCEPT ![current] = "deleted"]
    /\ pc' = "open"
    /\ UNCHANGED <<run, exitCode, issued, envVars, deployVars, visited,
                   current, bucketResult, status, success, error, uploaded,
                   failed, putCount, everPut>>

\* upload_file opens the file and issues requests.post
PostIssue ==
    /\ program = "upload" /\ pc = "open"
    /\ inflight' = inflight \cup {Request("POST", remote_path(current))}
    /\ issued' = issued \cup {"post"}
    /\ phase' = [phase EXCEPT ![current] = "posting"]
    /\ putCount' = [putCount EXCEPT ![current] = @ + 1]
    /\ pc' = "post"
    /\ UNCHANGED <<run, exitCode, envVars, deployVars, visited, current,
                   bucketResult, status, success, error, uploaded, failed,
                   remote, everPut>>

\* upload_directory after upload_file returned <<ok, reason>>
Count(ok, reason) ==
    /\ success' = ok
    /\ error' = reason
    /\ uploaded' = IF ok THEN uploaded + 1 ELSE uploaded
    /\ failed' = IF ok THEN failed ELSE failed + 1
    /\ phase' = [phase EXCEPT ![current] = IF ok THEN "ok" ELSE "failed"]
    /\ current' = NoEntry
    /\ pc' = "walk"

\* open(local_path, 'rb') raises: upload_file returns False, str(e)
OpenFails ==
    /\ program = "upload" /\ pc = "open"
    /\ Count(FALSE, OpenMessage)
    /\ UNCHANGED <<run, exitCode, issued, envVars, deployVars, visited,
                   inflight, bucketResult, status, putCount, remote, everPut>>

\* upload_file as it would be if it posted again after a refused post
PostResponseRetry ==
    /\ program = "upload" /\ pc = "post"
    /\ \E resp \in HttpResponses :
          LET res == upload_result(resp.status, resp.body) IN
          /\ status' = resp.status
          /\ remote' = IF Served(resp) THEN remote \cup {remote_path(current)}
                       ELSE remote
          /\ everPut' = IF res[1] THEN everPut \cup {remote_path(current)}
                        ELSE everPut
          /\ IF res[1] \/ putCount[current] > 1
               THEN /\ Count(res[1], res[2])
                    /\ inflight' = inflight \ {Request("POST", remote_path(current))}
                    /\ UNCHANGED putCount
               ELSE /\ putCount' = [putCount EXCEPT ![current] = @ + 1]
                    /\ UNCHANGED <<success, error, uploaded, failed, phase,
                                   current, pc, inflight>>
    /\ UNCHANGED <<run, exitCode, issued, envVars, deployVars, visited,
                   bucketResult>>

\* requests.post returns a response
PostResponse ==
    /\ program = "upload" /\ pc = "post"
    /\ \E resp \in HttpResponses :
          LET res == upload_result(resp.status, resp.body) IN
          /\ status' = resp.status
          /\ remote' = IF Served(resp) THEN remote \cup {remote_path(current)}
                       ELSE remote
          /\ everPut' = IF res[1] THEN everPut \cup {remote_path(current)}
                        ELSE everPut
          /\ Count(res[1], res[2])
    /\ inflight' = inflight \ {Request("POST", remote_path(current))}
    /\ UNCHANGED <<run, exitCode, issued, envVars, deployVars, visited,
                   bucketResult, putCount>>

\* upload_file as it would be without its except clause: the exception
\* leaves upload_directory and main, and the interpreter exits with 1
PostExceptionUncaught ==
    /\ program = "upload" /\ pc = "post"
    /\ \E resp \in Exceptions :
          remote' = IF Served(resp) THEN remote \cup {remote_path(current)}
                    ELSE remote
    /\ inflight' = inflight \ {Request("POST", remote_path(current))}
    /\ exitCode' = 1
    /\ pc' = "done"
    /\ UNCHANGED <<run, issued, envVars, deployVars, visited, current,
                   bucketResult, status, success, error, uploaded, failed,
                   phase, putCount, everPut>>

\* requests.post raises: upload_file returns False, str(e)
PostException ==
    /\ program = "upload" /\ pc = "post"
    /\ \E resp \in Exceptions :
          /\ remote' = IF Served(resp) THEN remote \cup {remote_path(current)}
                       ELSE remote
          /\ Count(FALSE, resp.msg)
    /\ inflight' = inflight \ {Request("POST", remote_path(current))}
    /\ UNCHANGED <<run, exitCode, issued, envVars, deployVars, visited,
                   bucketResult, status, putCount, everPut>>

\* rglob is exhausted: upload_directory returns, main prints and returns
Finish ==
    /\ program = "upload" /\ pc = "walk"
    /\ visited = tree
    /\ exitCode' = main_return(failed)
    /\ pc' = "done"
    /\ UNCHANGED <<run, issued, envVars, deployVars, uploadVars>>

\* The script is started again against the same tree and the same bucket
Rerun ==
    /\ program = "upload" /\ pc = "done"
    /\ run < MaxRuns
    /\ run' = run + 1
    /\ pc' = "start"
    /\ issued' = {}
    /\ exitCode' = NoExit
    /\ visited' = {}
    /\ current' = NoEntry
    /\ inflight' = {}
    /\ bucketResult' = "none"
    /\ status' = NoStatus
    /\ success' = FALSE
    /\ error' = None
    /\ uploaded' = 0
    /\ failed' = 0
    /\ phase' = [e \in Files(Entries) |-> "pending"]
    /\ putCount' = [e \in Files(Entries) |-> 0]
    /\ UNCHANGED <<envVars, deployVars, remote, everPut>>

NextUpload ==
    \/ BucketIssue \/ BucketReturn \/ CheckDir \/ SkipDir \/ DeleteIssue
    \/ DeleteReturn \/ PostIssue \/ OpenFails \/ PostResponse
    \/ PostException \/ Finish \/ Rerun

----------------------------------------------------------------------------
(* deploy_automation.py *)

\* How subprocess.run ends: return code 0, another return code,
\* TimeoutExpired, or another exception
CmdResults == {"zero", "nonzero", "timeout", "error"}

\* First component of run_command's return value
run_command(r) == r = "zero"

\* main's return value
deploy_main_return(frontend, backend) == IF frontend \/ backend THEN 0 ELSE 1

\* Step 1: install_zeabur_cli; main only warns when it returns False
InstallCli ==
    /\ program = "deploy" /\ pc = "start"
    /\ \E which \in CmdResults, curl \in CmdResults :
          /\ cliOk' = (run_command(which) \/ run_command(curl))
          /\ issued' = issued \cup {"which"}
                       \cup (IF run_command(which) THEN {} ELSE {"curl"})
    /\ steps' = steps \cup {"install"}
    /\ pc' = "build"
    /\ UNCHANGED <<run, exitCode, envVars, uploadVars, gitExists, buildOk,
                   backend_success, frontend_success, files_uploaded>>

\* Step 2: build_frontend; main returns 1 when it returns False
BuildFrontend ==
    /\ program = "deploy" /\ pc = "build"
    /\ \E install \in CmdResults, build \in CmdResults :
          /\ buildOk' = (run_command(install) /\ run_command(build))
          /\ issued' = issued \cup {"npm_install"}
                       \cup (IF run_command(install) THEN {"npm_build"} ELSE {})
    /\ steps' = steps \cup {"build"}
    /\ IF buildOk'
         THEN pc' = "zeabur" /\ exitCode' = exitCode
         ELSE pc' = "done" /\ exitCode' = 1
    /\ UNCHANGED <<run, envVars, uploadVars, gitExists, cliOk,
                   backend_success, frontend_success, files_uploaded>>

\* Step 3, backend: deploy_to_zeabur returns False on every path
DeployToZeabur ==
    /\ program = "deploy" /\ pc = "zeabur"
    /\ IF zeaburToken /\ ~gitExists
         THEN /\ issued' = issued \cup {"git"}
              /\ \E init \in CmdResults : gitExists' = run_command(init)
         ELSE UNCHANGED <<issued, gitExists>>
    /\ backend_success' = FALSE
    /\ steps' = steps \cup {"zeabur"}
    /\ pc' = "supabase"
    /\ UNCHANGED <<run, exitCode, envVars, uploadVars, cliOk, buildOk,
                   frontend_success, files_uploaded>>

\* deploy_frontend_to_supabase as it would be without its token check
DeployFrontendStartNoTokenCheck ==
    /\ program = "deploy" /\ pc = "supabase"
    /\ steps' = steps \cup {"supabase"}
    /\ IF ~distExists
         THEN /\ frontend_success' = FALSE
              /\ pc' = "summary"
              /\ UNCHANGED <<issued, files_uploaded, visited>>
         ELSE /\ issued' = issued \cup {"ls"}
              /\ files_uploaded' = 0
              /\ visited' = {}
              /\ pc' = "cp"
              /\ UNCHANGED frontend_success
    /\ UNCHANGED <<run, exitCode, envVars, gitExists, cliOk, buildOk,
                   backend_success, current, inflight, bucketResult, status,
                   success, error, uploaded, failed, phase, putCount, remote,
                   everPut>>

\* Step 3, frontend: deploy_frontend_to_supabase up to its os.walk loop
DeployFrontendStart ==
    /\ program = "deploy" /\ pc = "supabase"
    /\ steps' = steps \cup {"supabase"}
    /\ IF ~envToken \/ ~distExists
         THEN /\ frontend_success' = FALSE
              /\ pc' = "summary"
              /\ UNCHANGED <<issued, files_uploaded, visited>>
         ELSE /\ issued' = issued \cup {"ls"}
              /\ files_uploaded' = 0
              /\ visited' = {}
              /\ pc' = "cp"
              /\ UNCHANGED frontend_success
    /\ UNCHANGED <<run, exitCode, envVars, gitExists, cliOk, buildOk,
                   backend_success, current, inflight, bucketResult, status,
                   success, error, uploaded, failed, phase, putCount, remote,
                   everPut>>

\* One iteration of the os.walk loop: supabase storage cp for one file
CopyFile ==
    /\ program = "deploy" /\ pc = "cp"
    /\ \E e \in Files(tree) \ visited, r \in CmdResults :
          /\ visited' = visited \cup {e}
          /\ files_uploaded' = IF run_command(r) THEN files_uploaded + 1
                               ELSE files_uploaded
    /\ issued' = issued \cup {"cp"}
    /\ UNCHANGED <<run, pc, exitCode, envVars, gitExists, cliOk, buildOk,
                   backend_success, frontend_success, steps, current,
                   inflight, bucketResult, status, success, error, uploaded,
                   failed, phase, putCount, remote, everPut>>

\* deploy_frontend_to_supabase as it would be if it returned whether a
\* file was copied
DeployFrontendEndCounted ==
    /\ program = "deploy" /\ pc = "cp"
    /\ visited = Files(tree)
    /\ frontend_success' = (files_uploaded > 0)
    /\ pc' = "summary"
    /\ UNCHANGED <<run, exitCode, issued, envVars, uploadVars, gitExists,
                   cliOk, buildOk, backend_success, files_uploaded, steps>>

\* os.walk is exhausted: deploy_frontend_to_supabase returns True
DeployFrontendEnd ==
    /\ program = "deploy" /\ pc = "cp"
    /\ visited = Files(tree)
    /\ frontend_success' = TRUE
    /\ pc' = "summary"
    /\ UNCHANGED <<run, exitCode, issued, envVars, uploadVars, gitExists,
                   cliOk, buildOk, backend_success, files_uploaded, steps>>

\* main's summary and return
Summary ==
    /\ program = "deploy" /\ pc = "summary"
    /\ exitCode' = deploy_main_return(frontend_success, backend_success)
    /\ pc' = "done"
    /\ UNCHANGED <<run, issued, envVars, uploadVars, deployVars>>

\* The credentials each script holds. The uploader's are the module constants
\* SUPABASE_ACCESS_TOKEN and SUPABASE_ANON_KEY; the orchestration script reads
\* the token from the environment and passes no API key to its commands.
TokenPresent == IF program = "upload" THEN TRUE ELSE envToken
ApiKeyPresent == program = "upload"

NextDeploy ==
    \/ InstallCli \/ BuildFrontend \/ DeployToZeabur \/ DeployFrontendStart
    \/ CopyFile \/ DeployFrontendEnd \/ Summary

Next == NextUpload \/ NextDeploy

Spec == Init /\ [][Next]_vars

----------------------------------------------------------------------------
(* Properties *)

Outcomes == {"ok", "failed"}
UploadRequests == {"bucket", "delete", "post"}
UploadCommands == {"ls", "cp"}

\* C1: at every moment the two counters together count exactly the files whose
\* upload_file call has returned, and when upload_directory has returned every
\* regular file under the root has one outcome, so uploaded + failed is the
\* number of regular files, whatever the per-file results were.
C1_CountInvariant ==
    program = "upload" =>
        /\ uploaded + failed
             = Cardinality({e \in Files(Entries) : phase[e] \in Outcomes})
        /\ (pc = "done" /\ distExists) =>
              /\ \A e \in Files(tree) : phase[e] \in Outcomes
              /\ uploaded + failed = Cardinality(Files(tree))

\* A run that ended with one failure followed by a successful upload
C1_Witness ==
    /\ program = "upload" /\ pc = "done"
    /\ uploaded = 1 /\ failed = 1 /\ success

\* C2: when dist does not exist the run issues no network request and exits
\* non-zero.
C2_NoRequestWithoutDist ==
    (program = "upload" /\ ~distExists /\ pc = "done") =>
        (issued = {} /\ exitCode # 0)

\* C3: after any sequence of runs against the unchanged tree, a key whose
\* upload once succeeded holds an object: its existence does not depend on a
\* later run that issued the delete and then the post for that key, whatever
\* that post gave.
C3_ExistenceFollowsLastSuccess ==
    (program = "upload" /\ pc = "done") =>
        \A e \in Files(tree) :
            (remote_path(e) \in everPut /\ putCount[e] = 1) =>
                remote_path(e) \in remote

\* C4: with dist present, main's exit code is 0 exactly when failed is 0.
C4_ExitCode ==
    (program = "upload" /\ pc = "done" /\ distExists) =>
        (exitCode = 0 <=> failed = 0)

\* A run with a failed file, which exits with 1
C4_Witness ==
    /\ program = "upload" /\ pc = "done" /\ distExists
    /\ failed > 0 /\ uploaded > 0 /\ exitCode = 1

\* C5: whatever the bucket request gives (created, 409, another status, an
\* exception), the step that consumes it goes on to the directory check and
\* changes neither the counters nor the exit code.
C5_BucketNeverHalts ==
    [][(program = "upload" /\ pc = "bucket") =>
          /\ pc' = "check_dir"
          /\ exitCode' = exitCode
          /\ uploaded' = uploaded
          /\ failed' = failed]_vars

\* A run whose bucket creation failed and which uploaded a file and exits 0
C5_Witness ==
    /\ program = "upload" /\ pc = "done"
    /\ bucketResult \in {"warning", "error"}
    /\ uploaded > 0 /\ exitCode = 0

\* C6, as amended: in the orchestration script an absent access token makes
\* deploy_frontend_to_supabase return False before any supabase command
\* (storage ls, storage cp) is issued, and main exits with 1.
C6_TokenRequiredForFrontendDeploy ==
    (program = "deploy" /\ ~envToken) =>
        /\ issued \cap UploadCommands = {}
        /\ ~frontend_success
        /\ pc = "done" => exitCode = 1

\* The frontend step ran without a token, with files waiting in dist
C6_Witness ==
    /\ program = "deploy" /\ pc = "done" /\ ~envToken
    /\ "supabase" \in steps /\ distExists /\ Files(tree) # {}

\* C6: when the access token or the API key is absent, no bucket, delete or
\* post request and no upload command is issued.
C6_CredentialsRequired ==
    (~TokenPresent \/ ~ApiKeyPresent) =>
        issued \cap (UploadRequests \cup UploadCommands) = {}

\* C7: at most one request is in flight; a request in flight is the one the
\* current file's phase names; only the current file is between its delete
\* and its outcome; and a post is issued only once the delete of the same
\* key has returned and nothing is in flight.
C7_StrictSequence ==
    /\ [](program = "upload" =>
            /\ Cardinality(inflight) <= 1
            /\ \A r \in inflight : r.method \in {"DELETE", "POST"} =>
                  /\ current # NoEntry
                  /\ r.key = remote_path(current)
                  /\ phase[current]
                       = (IF r.method = "DELETE" THEN "deleting" ELSE "posting")
            /\ \A e \in Files(Entries) :
                  phase[e] \in {"deleting", "deleted", "posting"} => e = current)
    /\ [][\A e \in Files(Entries) :
             (phase'[e] = "posting" /\ phase[e] # "posting") =>
                 (phase[e] = "deleted" /\ inflight = {})]_vars

\* The post of a second file is in flight after the first file got its outcome
C7_Witness ==
    /\ program = "upload" /\ pc = "post"
    /\ \E e \in Files(tree) : e # current /\ phase[e] \in Outcomes

\* C8: within a run no file gets a second post, the failed counter never
\* decreases, and a file that failed stays failed.
C8_NoRetry ==
    [][run' = run =>
          /\ failed' >= failed
          /\ \A e \in Files(Entries) :
                /\ putCount'[e] <= 1
                /\ phase[e] = "failed" => phase'[e] = "failed"]_vars

\* A finished run with a file that failed after its one post
C8_Witness ==
    /\ program = "upload" /\ pc = "done"
    /\ \E e \in Files(tree) : phase[e] = "failed" /\ putCount[e] = 1

\* C9, as amended: upload_file returns success exactly for the statuses 200
\* and 201, and for every other status a failure whose reason contains the
\* status code.
C9_StatusDecidesOutcome ==
    (program = "upload" /\ status # NoStatus) =>
        /\ success <=> status \in {200, 201}
        /\ ~success => Contains(error, Digits(status))

\* A post answered 500 with a long body: the reason holds "500" and 100
\* characters of the body
C9_Witness ==
    /\ program = "upload" /\ status = 500 /\ ~success
    /\ Contains(error, <<"5", "0", "0">>)
    /\ Len(error) > BodyLimit

\* C9: upload_file returns success for every status in 200..299, and for every
\* other status a failure whose reason contains the status code.
C9_Every2xxSucceeds ==
    (program = "upload" /\ status # NoStatus) =>
        /\ status \in 200..299 => success
        /\ status \notin 200..299 =>
              (~success /\ Contains(error, Digits(status)))

\* C10: when the orchestration script has ended: if the build succeeded, the
\* token is set and dist exists, the frontend step returned True and main
\* returns 0 however many copies failed; if the build failed, main returns 1
\* and no deployment step ran; and the build step ran whatever the CLI
\* installation gave.
C10_Orchestration ==
    (program = "deploy" /\ pc = "done") =>
        /\ "build" \in steps
        /\ (buildOk /\ envToken /\ distExists) =>
              (frontend_success /\ exitCode = 0)
        /\ ~buildOk =>
              /\ exitCode = 1
              /\ steps \cap {"zeabur", "supabase"} = {}
              /\ issued \cap ({"git"} \cup UploadCommands) = {}

\* The CLI installation failed, every copy failed, and main returns 0
C10_Witness ==
    /\ program = "deploy" /\ pc = "done"
    /\ ~cliOk /\ buildOk
    /\ Files(tree) # {} /\ files_uploaded = 0
    /\ frontend_success /\ exitCode = 0

====
